---- MODULE Spec2Model ----
(***************************************************************************)
(* A model of package logger (src/logger/logger.go): the process-wide      *)
(* leveled logging facade.  State is the package's global variables, the   *)
(* streams and the log file it writes to, the open file handles, and the   *)
(* position of every goroutine inside a dispatch call.                     *)
(*                                                                         *)
(* Byte strings are sequences of atoms.  The atoms "ESC", "[", "m" and     *)
(* "LF" are the single bytes 0x1b, '[', 'm' and '\n'; every other atom is  *)
(* a run of bytes that holds none of these four ("TS" is the 19 bytes of   *)
(* a rendered date and time, "INFO" the four letters, and so on).          *)
(***************************************************************************)
EXTENDS Integers, Sequences, FiniteSets, TLC

VARIABLES
    enabledLevels,     \* var enabledLevels: the set of levels mapped to true
    loggers,           \* vars Debug .. Fatal: the *log.Logger bound to each level
    logFile,           \* var logFile: 0 is nil, otherwise a handle of `handles`
    includeCallerTag,  \* var includeCallerTag
    logMutex,          \* var logMutex: 0 is unlocked, otherwise the goroutine holding it
    env,               \* the process environment: LOGGER_LEVELS and JOURNAL_STREAM
    handles,           \* every *os.File ever opened: its path, whether it is open, times closed
    disk,              \* the bytes of the log file on disk, one entry per write(2)
    stdout,            \* the writes outStdout has received, in order
    stderr,            \* the writes outStderr has received, in order
    writing,           \* per console stream, the call whose Write is in progress (0: none)
    pc,                \* where each goroutine is inside its dispatch call
    cur,               \* the dispatch call each goroutine is making
    exitCode,          \* -1 while the process runs, otherwise the os.Exit status
    calls,             \* every dispatch call made so far, by its number
    lastOp,            \* the Init or Close call that returned last and what it did
                       \* (for Close, ferr is what logFile.Close() returned);
                       \* flip alternates, so that two equal calls in a row differ;
                       \* config is the Config of the latest Init
    nInit              \* Init calls made so far

vars == <<enabledLevels, loggers, logFile, includeCallerTag, logMutex, env, handles,
          disk, stdout, stderr, writing, pc, cur, exitCode, calls, lastOp, nInit>>

-----------------------------------------------------------------------------
(* Bounds of the model. *)

MaxInit == 2
MaxCalls == 2

-----------------------------------------------------------------------------
(* type Level and its constants. *)

DebugLevel == 0
InfoLevel == 1
WarnLevel == 2
ErrorLevel == 3
FatalLevel == 4
NoticeLevel == 5
CritLevel == 6
AlertLevel == 7
EmergLevel == 8

AllLevels ==
    <<DebugLevel, InfoLevel, NoticeLevel, WarnLevel, ErrorLevel,
      CritLevel, AlertLevel, EmergLevel, FatalLevel>>

Range(s) == {s[i] : i \in 1..Len(s)}

Levels == Range(AllLevels)

(* A []Level: the nil slice, or a list (possibly empty). *)
NilLevels == [nil |-> TRUE, list |-> <<>>]
LevelList(list) == [nil |-> FALSE, list |-> list]

-----------------------------------------------------------------------------
(* Byte strings. *)

ESC == "ESC"
LF == "LF"
SP == " "


(* strings.Contains over atoms: sub occurs in s as a contiguous run. *)
Contains(s, sub) ==
    \E i \in 0..(Len(s) - Len(sub)) :
        \A j \in 1..Len(sub) : s[i + j] = sub[j]

HasPrefix(s, p) == Len(s) >= Len(p) /\ SubSeq(s, 1, Len(p)) = p

-----------------------------------------------------------------------------
(* Level registry: resolveLevels, levelsFromSlice, allLevelsEnabled,        *)
(* parseLevels, isLevelEnabled.  A map[Level]bool that only ever stores     *)
(* true is the set of its keys.                                             *)
(*                                                                          *)
(* The value of LOGGER_LEVELS is a byte string whose atoms are " ", ","     *)
(* and words (maximal runs of other bytes); the empty sequence is the       *)
(* unset or empty variable.                                                 *)

RECURSIVE TrimLeft(_)
TrimLeft(s) == IF s # <<>> /\ Head(s) = SP THEN TrimLeft(Tail(s)) ELSE s

RECURSIVE TrimRight(_)
TrimRight(s) ==
    IF s # <<>> /\ s[Len(s)] = SP THEN TrimRight(SubSeq(s, 1, Len(s) - 1)) ELSE s

(* strings.TrimSpace *)
TrimSpace(s) == TrimRight(TrimLeft(s))

(* strings.Split(s, ","): always at least one piece, possibly empty. *)
RECURSIVE Split(_)
Split(s) ==
    IF \A i \in 1..Len(s) : s[i] # ","
    THEN <<s>>
    ELSE LET k == CHOOSE i \in 1..Len(s) :
                      s[i] = "," /\ \A j \in 1..(i - 1) : s[j] # ","
         IN  <<SubSeq(s, 1, k - 1)>> \o Split(SubSeq(s, k + 1, Len(s)))

(* strings.ToUpper on one word. *)
UpperWord(w) ==
    CASE w \in {"debug", "Debug"} -> "DEBUG"
      [] w \in {"info", "Info"} -> "INFO"
      [] w \in {"notice"} -> "NOTICE"
      [] w \in {"warning", "Warning"} -> "WARNING"
      [] w \in {"warn"} -> "WARN"
      [] w \in {"error"} -> "ERROR"
      [] w \in {"crit"} -> "CRIT"
      [] w \in {"critical"} -> "CRITICAL"
      [] w \in {"alert"} -> "ALERT"
      [] w \in {"emerg"} -> "EMERG"
      [] w \in {"emergency"} -> "EMERGENCY"
      [] w \in {"fatal"} -> "FATAL"
      [] OTHER -> w

ToUpper(s) == [i \in 1..Len(s) |-> UpperWord(s[i])]

allLevelsEnabled ==
    {DebugLevel, InfoLevel, NoticeLevel, WarnLevel, ErrorLevel,
     CritLevel, AlertLevel, EmergLevel, FatalLevel}

(* levelsFromSlice that stops after the first element. *)
levelsFromSliceFirst(levels) == IF levels = <<>> THEN {} ELSE {levels[1]}

levelsFromSlice(levels) == {levels[i] : i \in 1..Len(levels)}

(* The switch of parseLevels with a case for WARN. *)
levelsOfTokenWarn(t) ==
    CASE t = <<"DEBUG">> -> {DebugLevel}
      [] t = <<"INFO">> -> {InfoLevel}
      [] t = <<"NOTICE">> -> {NoticeLevel}
      [] t \in {<<"WARNING">>, <<"WARN">>} -> {WarnLevel}
      [] t = <<"ERROR">> -> {ErrorLevel}
      [] t \in {<<"CRIT">>, <<"CRITICAL">>} -> {CritLevel}
      [] t = <<"ALERT">> -> {AlertLevel}
      [] t \in {<<"EMERG">>, <<"EMERGENCY">>} -> {EmergLevel}
      [] t = <<"FATAL">> -> {FatalLevel}
      [] OTHER -> {}

(* The switch of parseLevels on one trimmed, upper-cased piece. *)
levelsOfToken(t) ==
    CASE t = <<"DEBUG">> -> {DebugLevel}
      [] t = <<"INFO">> -> {InfoLevel}
      [] t = <<"NOTICE">> -> {NoticeLevel}
      [] t = <<"WARNING">> -> {WarnLevel}
      [] t = <<"ERROR">> -> {ErrorLevel}
      [] t \in {<<"CRIT">>, <<"CRITICAL">>} -> {CritLevel}
      [] t = <<"ALERT">> -> {AlertLevel}
      [] t \in {<<"EMERG">>, <<"EMERGENCY">>} -> {EmergLevel}
      [] t = <<"FATAL">> -> {FatalLevel}
      [] OTHER -> {}

parseLevels(s) ==
    LET t == TrimSpace(s)
        ps == Split(t)
    IN  IF t = <<>>
        THEN {DebugLevel, InfoLevel, NoticeLevel, WarnLevel, ErrorLevel,
              CritLevel, AlertLevel, EmergLevel, FatalLevel}
        ELSE UNION {levelsOfToken(ToUpper(TrimSpace(ps[i]))) : i \in 1..Len(ps)}

(* resolveLevels with the environment consulted first. *)
resolveLevelsEnvFirst(levels, e) ==
    IF e.LOGGER_LEVELS # <<>> THEN parseLevels(e.LOGGER_LEVELS)
    ELSE IF ~levels.nil THEN levelsFromSlice(levels.list)
    ELSE allLevelsEnabled

resolveLevels(levels, e) ==
    IF ~levels.nil THEN levelsFromSlice(levels.list)
    ELSE IF e.LOGGER_LEVELS # <<>> THEN parseLevels(e.LOGGER_LEVELS)
    ELSE allLevelsEnabled

(* isLevelEnabled with the lookup lost: every level passes. *)
isLevelEnabledAlways(level) == TRUE

isLevelEnabled(level) == level \in enabledLevels

-----------------------------------------------------------------------------
(* Writers.  An io.Writer is a record; `kind` names its dynamic type.       *)

(* A discarding writer that is the standard output. *)
DiscardAsStdout == [kind |-> "stream", name |-> "stdout"]

Discard == [kind |-> "discard"]
outStdout == [kind |-> "stream", name |-> "stdout"]
outStderr == [kind |-> "stream", name |-> "stderr"]
FileWriter(h) == [kind |-> "file", h |-> h]
NoWriter == [kind |-> "nil"]

syslogPrefixWriter(w, prefix) == [kind |-> "syslog", w |-> w, prefix |-> prefix]
plainFileWriter(w, level) == [kind |-> "plainFile", w |-> w, level |-> level]
timestampWriter(w) == [kind |-> "timestamp", w |-> w]
MultiWriter(w1, w2) == [kind |-> "multi", first |-> w1, second |-> w2]

(* log.New(out, prefix, flags): flags is "LstdFlags" or "0". *)
NewLogger(out, prefix, flags) == [out |-> out, prefix |-> prefix, flags |-> flags]

(* The level names with the warning logger named WARN. *)
LevelNameShortWarn(level) ==
    CASE level = DebugLevel -> "DEBUG"
      [] level = InfoLevel -> "INFO"
      [] level = NoticeLevel -> "NOTICE"
      [] level = WarnLevel -> "WARN"
      [] level = ErrorLevel -> "ERROR"
      [] level = CritLevel -> "CRIT"
      [] level = AlertLevel -> "ALERT"
      [] level = EmergLevel -> "EMERG"
      [] level = FatalLevel -> "FATAL"

(* The level names Init passes to newColorLogger and newPlainLogger. *)
LevelName(level) ==
    CASE level = DebugLevel -> "DEBUG"
      [] level = InfoLevel -> "INFO"
      [] level = NoticeLevel -> "NOTICE"
      [] level = WarnLevel -> "WARNING"
      [] level = ErrorLevel -> "ERROR"
      [] level = CritLevel -> "CRIT"
      [] level = AlertLevel -> "ALERT"
      [] level = EmergLevel -> "EMERG"
      [] level = FatalLevel -> "FATAL"

(* The console streams with the threshold of a minimum-level logger: the  *)
(* enum order puts NoticeLevel above WarnLevel.                            *)
ConsoleOfByOrder(level) == IF level < WarnLevel THEN outStdout ELSE outStderr

(* The console stream Init passes for each level. *)
ConsoleOf(level) ==
    IF level \in {DebugLevel, InfoLevel, NoticeLevel} THEN outStdout ELSE outStderr

(* The colors map of newColorLogger: "\033[<n>m". *)
colors(level) ==
    CASE level = "DEBUG" -> <<ESC, "[", "36", "m">>
      [] level = "INFO" -> <<ESC, "[", "32", "m">>
      [] level = "NOTICE" -> <<ESC, "[", "34", "m">>
      [] level = "WARNING" -> <<ESC, "[", "33", "m">>
      [] level = "ERROR" -> <<ESC, "[", "31", "m">>
      [] level = "CRIT" -> <<ESC, "[", "91", "m">>
      [] level = "ALERT" -> <<ESC, "[", "95", "m">>
      [] level = "EMERG" -> <<ESC, "[", "97", "m">>
      [] level = "FATAL" -> <<ESC, "[", "35", "m">>
      [] OTHER -> <<>>

reset == <<ESC, "[", "0", "m">>

prefixForLog(prefix) == IF prefix = <<>> THEN <<>> ELSE prefix \o <<SP>>

(* shouldUseSyslogPrefix without the look at JOURNAL_STREAM. *)
shouldUseSyslogPrefixAlways(e) == TRUE

shouldUseSyslogPrefix(e) == e.JOURNAL_STREAM # <<>>

syslogPrefixForLevel(level) ==
    CASE level = "EMERG" -> <<"<0>">>
      [] level = "ALERT" -> <<"<1>">>
      [] level = "CRIT" -> <<"<2>">>
      [] level = "DEBUG" -> <<"<7>">>
      [] level = "INFO" -> <<"<6>">>
      [] level = "NOTICE" -> <<"<5>">>
      [] level = "WARNING" -> <<"<4>">>
      [] level = "ERROR" -> <<"<3>">>
      [] level = "FATAL" -> <<"<2>">>
      [] OTHER -> <<>>

newColorLogger(out, level, showLevel, fileWriter) ==
    LET prefix == IF showLevel
                  THEN colors(level) \o <<"[", level, "]">> \o reset
                  ELSE <<>>
    IN  IF fileWriter # NoWriter
        THEN NewLogger(MultiWriter(out, plainFileWriter(fileWriter, level)),
                       prefixForLog(prefix), "LstdFlags")
        ELSE NewLogger(out, prefixForLog(prefix), "LstdFlags")

newPlainLogger(out, level, showLevel, fileWriter, e) ==
    LET prefix == IF showLevel THEN <<"[", level, "]">> ELSE <<>>
        outWriter == IF shouldUseSyslogPrefix(e) /\ syslogPrefixForLevel(level) # <<>>
                     THEN syslogPrefixWriter(out, syslogPrefixForLevel(level))
                     ELSE out
    IN  IF fileWriter # NoWriter
        THEN NewLogger(MultiWriter(outWriter, timestampWriter(fileWriter)),
                       prefixForLog(prefix), "0")
        ELSE NewLogger(outWriter, prefixForLog(prefix), "0")

-----------------------------------------------------------------------------
(* Line decorators and the Write methods.                                   *)

(* time.Now().Format("2006/01/02 15:04:05 "), and the header log.Logger     *)
(* writes under LstdFlags: the date and time, then a space.                 *)
Timestamp == <<"TS", SP>>

(* A plainFileWriter that hands its input on as it is. *)
stripAnsiNone(data) == data

(* The loop of plainFileWriter.Write from byte i (1-based) on. *)
RECURSIVE stripFrom(_, _, _)
stripFrom(s, i, inEscape) ==
    IF i > Len(s) THEN <<>>
    ELSE IF s[i] = ESC /\ i + 1 <= Len(s) /\ s[i + 1] = "["
         THEN stripFrom(s, i + 1, TRUE)
    ELSE IF inEscape
         THEN stripFrom(s, i + 1, s[i] # "m")
    ELSE <<s[i]>> \o stripFrom(s, i + 1, FALSE)

(* What plainFileWriter.Write hands to the file. *)
stripAnsi(data) == stripFrom(data, 1, FALSE)

(* The loop of syslogPrefixWriter.Write from byte i on. *)
RECURSIVE syslogFrom(_, _, _)
syslogFrom(data, prefix, i) ==
    IF i > Len(data) THEN <<>>
    ELSE <<data[i]>>
         \o (IF data[i] = LF /\ i # Len(data) THEN prefix ELSE <<>>)
         \o syslogFrom(data, prefix, i + 1)

(* A syslogPrefixWriter that marks only the start of the write. *)
syslogBytesOnce(data, prefix) == prefix \o data

(* What syslogPrefixWriter.Write hands to its stream (<<>>: no write). *)
syslogBytes(data, prefix) ==
    IF prefix = <<>> THEN data
    ELSE IF Len(data) = 0 THEN <<>>
    ELSE prefix \o syslogFrom(data, prefix, 1)

(* A timestampWriter that passes the bytes on as they are. *)
timestampBytesNone(data) == data

(* The byte count syslogPrefixWriter.Write returns, its stream taking all   *)
(* it is handed: that of the payload, not of what was written.              *)
syslogCount(data, prefix) ==
    IF prefix = <<>> THEN Len(data)
    ELSE IF Len(data) = 0 THEN 0
    ELSE Len(data)

(* What timestampWriter.Write hands to the file. *)
timestampBytes(data) == Timestamp \o data

(* The stack above getCallerInfo inside a dispatch call: frame 1 is        *)
(* formatWithCaller, frame 2 the entry point, frame 3 the call site.       *)
getCallerInfo(depth) ==
    CASE depth = 1 -> "logger.formatWithCaller:433"
      [] depth = 2 -> "logger.entry:0"
      [] depth = 3 -> "app.run:42"
      [] OTHER -> "unknown"

formatWithCaller(depth, msg, tag) ==
    IF ~tag THEN msg
    ELSE <<"[", getCallerInfo(depth + 1), "]", SP>> \o msg

(* encodeFields: a value of the variadic list is [str |-> whether it is a   *)
(* Go string, text |-> its %v rendering].                                   *)
RECURSIVE encodeParts(_, _)
encodeParts(keyvals, i) ==
    IF i + 1 > Len(keyvals) THEN <<>>
    ELSE (IF keyvals[i].str
          THEN <<keyvals[i].text \o <<"=">> \o keyvals[i + 1].text>>
          ELSE <<>>)
         \o encodeParts(keyvals, i + 2)

RECURSIVE Join(_)
Join(parts) ==
    IF parts = <<>> THEN <<>>
    ELSE IF Len(parts) = 1 THEN parts[1]
    ELSE parts[1] \o <<SP>> \o Join(Tail(parts))

(* encodeFields without the space in front. *)
encodeFieldsBare(keyvals) == Join(encodeParts(keyvals, 1))

encodeFields(keyvals) ==
    IF Len(keyvals) = 0 THEN <<>>
    ELSE LET parts == encodeParts(keyvals, 1)
         IN  IF Len(parts) = 0 THEN <<>> ELSE <<SP>> \o Join(parts)

(* statusCodeToLevel with the redirects counted as warnings. *)
statusCodeToLevelRedirect(code) ==
    IF code >= 500 THEN ErrorLevel
    ELSE IF code >= 300 THEN WarnLevel
    ELSE InfoLevel

statusCodeToLevel(code) ==
    IF code >= 500 THEN ErrorLevel
    ELSE IF code >= 400 THEN WarnLevel
    ELSE IF code >= 300 THEN InfoLevel
    ELSE InfoLevel

(* The message an entry point builds before formatWithCaller.  For the     *)
(* formatted and the concatenated style, in.msg is the text fmt.Sprintf     *)
(* or fmt.Sprint rendered from the caller's arguments.                      *)
renderBody(in) ==
    CASE in.entry = "f" -> in.msg
      [] in.entry = "ln" -> in.msg
      [] in.entry = "kv" -> in.msg \o encodeFields(in.keyvals)
      [] in.entry = "Api" -> <<"[", ToString(in.code), "]", SP>> \o in.msg

(* The level an entry point checks and logs at. *)
levelOf(in) == IF in.entry = "Api" THEN statusCodeToLevel(in.code) ELSE in.level

(* A log.Logger that writes the date and time whatever its flags. *)
loggerLineStamped(l, msg) == l.prefix \o Timestamp \o msg \o <<LF>>

(* l.Println(msg): the one buffer log.Logger hands to its writer. *)
loggerLine(l, msg) ==
    l.prefix \o (IF l.flags = "LstdFlags" THEN Timestamp ELSE <<>>) \o msg \o <<LF>>

-----------------------------------------------------------------------------
(* The streams and the file.  A write is recorded with the number of the    *)
(* dispatch call that made it (0: the diagnostic of Init).                  *)

Procs == {1, 2}

LogPath == "app.log"
BadPath == "/nonexistent/directory/test.log"

(* os.OpenFile(path, O_CREATE|O_WRONLY|O_APPEND, 0644) succeeds. *)
OpenSucceeds(path) == path # BadPath

(* The bytes of the file once os.OpenFile has returned: O_CREATE without    *)
(* O_TRUNC keeps what is there.                                             *)
(* The bytes of the file had the flags held O_TRUNC. *)
diskAfterTrunc(d) == <<>>

diskAfterOpen(d) == d

outputs == [stdout |-> stdout, stderr |-> stderr, disk |-> disk, writing |-> writing]

(* Writes are numbered in the order they happen, across the three sinks. *)
nextSeq(o) == Len(o.stdout) + Len(o.stderr) + Len(o.disk) + 1

(* Records of `stream` made by call `busy` are marked torn. *)
tear(stream, busy) ==
    [i \in 1..Len(stream) |->
        IF stream[i].call = busy THEN [stream[i] EXCEPT !.torn = TRUE] ELSE stream[i]]

(* Write on outStdout or outStderr, an io.Writer that does no locking of    *)
(* its own: a Write that starts while another Write on the same stream is   *)
(* in progress interleaves with it, and both come out torn.  The write of   *)
(* a dispatch call (id > 0) stays in progress until the call's next step.   *)
streamWrite(name, data, id, o) ==
    IF data = <<>> THEN o
    ELSE LET busy == o.writing[name]
             rec == [call |-> id, data |-> data, torn |-> busy # 0, seq |-> nextSeq(o)]
             now == IF id = 0 THEN o.writing ELSE [o.writing EXCEPT ![name] = id]
         IN  IF name = "stdout"
             THEN [o EXCEPT !.stdout = Append(IF busy # 0 THEN tear(@, busy) ELSE @, rec),
                            !.writing = now]
             ELSE [o EXCEPT !.stderr = Append(IF busy # 0 THEN tear(@, busy) ELSE @, rec),
                            !.writing = now]

(* The Write of call id has returned. *)
writeDone(w, id) == [n \in DOMAIN w |-> IF w[n] = id THEN 0 ELSE w[n]]

(* A Write that a closed handle still accepts. *)
fileWriteAlways(h, data, id, o) ==
    IF data = <<>> THEN o
    ELSE [o EXCEPT !.disk = Append(@, [h |-> h, call |-> id, data |-> data,
                                       seq |-> Len(o.stdout) + Len(o.stderr)
                                               + Len(o.disk) + 1])]

(* os.File.Write under O_APPEND: the bytes go to the end of the file;    *)
(* a closed handle writes nothing and returns an error.                     *)
fileWrite(h, data, id, o) ==
    IF ~handles[h].open \/ data = <<>> THEN o
    ELSE [o EXCEPT !.disk = Append(@, [h |-> h, call |-> id, data |-> data,
                                       seq |-> nextSeq(o)])]

(* w.Write(data) for every writer but io.MultiWriter. *)
RECURSIVE writeTo(_, _, _, _)
writeTo(w, data, id, o) ==
    CASE w.kind = "discard" -> o
      [] w.kind = "stream" -> streamWrite(w.name, data, id, o)
      [] w.kind = "file" -> fileWrite(w.h, data, id, o)
      [] w.kind = "syslog" ->
            IF w.prefix # <<>> /\ Len(data) = 0 THEN o
            ELSE writeTo(w.w, syslogBytes(data, w.prefix), id, o)
      [] w.kind = "plainFile" -> writeTo(w.w, stripAnsi(data), id, o)
      [] w.kind = "timestamp" -> writeTo(w.w, timestampBytes(data), id, o)

(* The byte count the first writer of an io.MultiWriter reports: the       *)
(* MultiWriter goes on to the next writer only when it is len(data).        *)
consoleCount(w, data) ==
    IF w.kind = "syslog" THEN syslogCount(data, w.prefix) ELSE Len(data)

-----------------------------------------------------------------------------
(* Init and Close.                                                          *)

(* An Init that leaves Fatal as an earlier Init bound it. *)
initLoggerKeepFatal(config, level, fileWriter, e) ==
    IF level = FatalLevel /\ nInit > 0 THEN loggers[FatalLevel]
    ELSE IF config.Colorize
    THEN newColorLogger(ConsoleOf(level), LevelName(level),
                        config.IncludeLevelPrefix, fileWriter)
    ELSE newPlainLogger(ConsoleOf(level), LevelName(level),
                        config.IncludeLevelPrefix, fileWriter, e)

initLogger(config, level, fileWriter, e) ==
    IF config.Colorize
    THEN newColorLogger(ConsoleOf(level), LevelName(level),
                        config.IncludeLevelPrefix, fileWriter)
    ELSE newPlainLogger(ConsoleOf(level), LevelName(level),
                        config.IncludeLevelPrefix, fileWriter, e)

(* logFile after Init: set only when the file was opened. *)
logFileAfterInit(opened, h) == IF opened THEN h ELSE logFile

Init(config) ==
    /\ exitCode = -1
    /\ nInit < MaxInit
    /\ nInit' = nInit + 1
    /\ enabledLevels' = resolveLevels(config.Levels, env)
    /\ includeCallerTag' = config.IncludeCallerTag
    /\ LET wanted == config.FilePath # ""
           opened == wanted /\ OpenSucceeds(config.FilePath)
           h == Len(handles) + 1
           fileWriter == IF opened THEN FileWriter(h) ELSE NoWriter
       IN  /\ handles' = IF opened
                         THEN Append(handles, [path |-> config.FilePath,
                                               open |-> TRUE, closes |-> 0])
                         ELSE handles
           /\ disk' = IF opened THEN diskAfterOpen(disk) ELSE disk
           /\ logFile' = logFileAfterInit(opened, h)
           /\ stderr' = IF wanted /\ ~opened
                        THEN streamWrite("stderr", <<"failed to open log file", LF>>,
                                         0, outputs).stderr
                        ELSE stderr
           /\ loggers' = [l \in Levels |-> initLogger(config, l, fileWriter, env)]
           /\ lastOp' = [op |-> "Init", path |-> config.FilePath,
                         opened |-> opened, err |-> "nil", flip |-> ~lastOp.flip,
                         config |-> config]
    /\ UNCHANGED <<logMutex, env, stdout, writing, pc, cur, exitCode, calls>>

(* A Close that reports the missing handle. *)
closeNoFileInvalid == "EINVAL"

(* What Close returns when no handle is held. *)
closeNoFile == "nil"

(* A Close that keeps its reference to the handle. *)
logFileKeptByClose == logFile

(* logFile after Close has closed the handle. *)
logFileAfterClose == 0

(* A Close that keeps the error of the file to itself. *)
closeReturnNil(err) == "nil"

(* What Close returns after logFile.Close() returned err. *)
closeReturn(err) == err

(* A Close that binds every severity to a discarding logger. *)
loggersUnboundByClose == [l \in Levels |-> NewLogger(Discard, <<>>, "0")]

(* The nine loggers after Close: it assigns none of them. *)
loggersAfterClose == loggers

Close ==
    /\ exitCode = -1
    /\ IF logFile # 0
       THEN \E err \in {"nil", "EIO"} :
                /\ handles' = [handles EXCEPT ![logFile].open = FALSE,
                                              ![logFile].closes = @ + 1]
                /\ logFile' = logFileAfterClose
                /\ lastOp' = [op |-> "Close", path |-> handles[logFile].path,
                              opened |-> TRUE, err |-> closeReturn(err),
                              flip |-> ~lastOp.flip, config |-> lastOp.config,
                              ferr |-> err]
       ELSE /\ lastOp' = [op |-> "Close", path |-> "", opened |-> FALSE,
                          err |-> closeNoFile, flip |-> ~lastOp.flip,
                          config |-> lastOp.config, ferr |-> "none"]
            /\ UNCHANGED <<handles, logFile>>
    /\ loggers' = loggersAfterClose
    /\ UNCHANGED <<enabledLevels, includeCallerTag, logMutex, env, disk,
                   stdout, stderr, writing, pc, cur, exitCode, calls, nInit>>

-----------------------------------------------------------------------------
(* The dispatch entry points.  An input is                                  *)
(*   [entry |-> "f" | "ln" | "kv" | "Api", level, msg, keyvals, code]:      *)
(* entry and level name the function (Warnf is "f" at WarnLevel); Api has   *)
(* no level of its own.  A call is made in steps: the enablement check,     *)
(* logMutex.Lock, Println (the console Write, then the file Write of an     *)
(* io.MultiWriter), and the deferred Unlock or os.Exit.                     *)

(* No goroutine is inside a dispatch call. *)
Quiet == \A p \in Procs : pc[p] = "idle"

Idle == [id |-> 0, w |-> NoWriter, line |-> <<>>]

(* An entry point that returns like the others. *)
isFatalEntryNever(in) == FALSE

(* Fatalf, Fatalln and FatalKV: the entry points that call os.Exit(1). *)
isFatalEntry(in) == in.entry # "Api" /\ in.level = FatalLevel

(* A Lock that never waits. *)
lockNeverWaits == TRUE

(* logMutex.Lock can return. *)
lockFree == logMutex = 0

(* The entry point up to logMutex.Lock: if !isLevelEnabled(level) { return } *)
(* (os.Exit(1) in Fatalf, Fatalln and FatalKV).                             *)
Enter(p, in) ==
    /\ exitCode = -1
    /\ pc[p] = "idle"
    /\ Len(calls) < MaxCalls
    /\ LET id == Len(calls) + 1
           level == levelOf(in)
           rec == [p |-> p, in |-> in, level |-> level,
                   wasEnabled |-> level \in enabledLevels,
                   locked |-> FALSE, status |-> "running"]
       IN  IF ~isLevelEnabled(level)
           THEN IF isFatalEntry(in)
                THEN /\ exitCode' = 1
                     /\ calls' = Append(calls, [rec EXCEPT !.status = "exited"])
                     /\ UNCHANGED <<pc, cur>>
                ELSE /\ calls' = Append(calls, [rec EXCEPT !.status = "returned"])
                     /\ UNCHANGED <<pc, cur, exitCode>>
           ELSE /\ calls' = Append(calls, rec)
                /\ pc' = [pc EXCEPT ![p] = "lock"]
                /\ cur' = [cur EXCEPT ![p] = [Idle EXCEPT !.id = id]]
                /\ UNCHANGED exitCode
    /\ UNCHANGED <<enabledLevels, loggers, logFile, includeCallerTag, logMutex, env,
                   handles, disk, stdout, stderr, writing, lastOp, nInit>>

(* logMutex.Lock() *)
Lock(p) ==
    /\ exitCode = -1
    /\ pc[p] = "lock"
    /\ lockFree
    /\ logMutex' = p
    /\ pc' = [pc EXCEPT ![p] = "print"]
    /\ calls' = [calls EXCEPT ![cur[p].id].locked = TRUE]
    /\ UNCHANGED <<enabledLevels, loggers, logFile, includeCallerTag, env, handles,
                   disk, stdout, stderr, writing, cur, exitCode, lastOp, nInit>>

(* msg = formatWithCaller(2, msg); X.Println(msg), up to the return of the  *)
(* first Write.  The logger is the one bound to the level at this moment.  *)
Println(p) ==
    /\ exitCode = -1
    /\ pc[p] = "print"
    /\ LET id == cur[p].id
           c == calls[id]
           l == loggers[c.level]
           msg == formatWithCaller(2, renderBody(c.in), includeCallerTag)
           line == loggerLine(l, msg)
           multi == l.out.kind = "multi"
           o == writeTo(IF multi THEN l.out.first ELSE l.out, line, id, outputs)
       IN  /\ stdout' = o.stdout
           /\ stderr' = o.stderr
           /\ disk' = o.disk
           /\ writing' = o.writing
           /\ cur' = [cur EXCEPT ![p] = [id |-> id,
                                         w |-> IF multi THEN l.out.second ELSE NoWriter,
                                         line |-> IF multi THEN line ELSE <<>>]]
           /\ pc' = [pc EXCEPT ![p] = IF multi /\ consoleCount(l.out.first, line) = Len(line)
                                      THEN "file"
                                      ELSE "unlock"]
    /\ UNCHANGED <<enabledLevels, loggers, logFile, includeCallerTag, logMutex, env,
                   handles, exitCode, calls, lastOp, nInit>>

(* The second Write of the io.MultiWriter: the file copy. *)
FileWrite(p) ==
    /\ exitCode = -1
    /\ pc[p] = "file"
    /\ LET id == cur[p].id
           o == writeTo(cur[p].w, cur[p].line, id,
                        [outputs EXCEPT !.writing = writeDone(writing, id)])
       IN  /\ stdout' = o.stdout
           /\ stderr' = o.stderr
           /\ disk' = o.disk
           /\ writing' = o.writing
           /\ cur' = [cur EXCEPT ![p] = [Idle EXCEPT !.id = id]]
           /\ pc' = [pc EXCEPT ![p] = "unlock"]
    /\ UNCHANGED <<enabledLevels, loggers, logFile, includeCallerTag, logMutex, env,
                   handles, exitCode, calls, lastOp, nInit>>

(* An entry point that returns without its Unlock. *)
logMutexKept == logMutex

(* logMutex after the deferred logMutex.Unlock(). *)
logMutexAfterUnlock == 0

(* The end of the entry point: os.Exit(1) in the fatal ones, which never    *)
(* run the deferred Unlock; the deferred logMutex.Unlock() and the return   *)
(* in the others.                                                           *)
Leave(p) ==
    /\ exitCode = -1
    /\ pc[p] = "unlock"
    /\ LET id == cur[p].id
       IN  /\ writing' = writeDone(writing, id)
           /\ IF isFatalEntry(calls[id].in)
              THEN /\ exitCode' = 1
                   /\ calls' = [calls EXCEPT ![id].status = "exited"]
                   /\ UNCHANGED <<logMutex, pc, cur>>
              ELSE /\ logMutex' = logMutexAfterUnlock
                   /\ calls' = [calls EXCEPT ![id].status = "returned"]
                   /\ pc' = [pc EXCEPT ![p] = "idle"]
                   /\ cur' = [cur EXCEPT ![p] = Idle]
                   /\ UNCHANGED exitCode
    /\ UNCHANGED <<enabledLevels, loggers, logFile, includeCallerTag, env, handles,
                   disk, stdout, stderr, lastOp, nInit>>

(* An Init that waits for logMutex. *)
initWaitsForLock == logMutex # 0

(* Init never calls logMutex.Lock: nothing makes it wait. *)
initWaits == FALSE

(* Init as a goroutine p runs it beside dispatch calls, in two steps.  The  *)
(* first is Init up to the file: enabledLevels, includeCallerTag, the       *)
(* OpenFile, its diagnostic and logFile.                                    *)
InitResolve(p, config) ==
    /\ exitCode = -1
    /\ pc[p] = "idle"
    /\ nInit < MaxInit
    /\ ~initWaits
    /\ nInit' = nInit + 1
    /\ enabledLevels' = resolveLevels(config.Levels, env)
    /\ includeCallerTag' = config.IncludeCallerTag
    /\ LET wanted == config.FilePath # ""
           opened == wanted /\ OpenSucceeds(config.FilePath)
           h == Len(handles) + 1
           fileWriter == IF opened THEN FileWriter(h) ELSE NoWriter
       IN  /\ handles' = IF opened
                         THEN Append(handles, [path |-> config.FilePath,
                                               open |-> TRUE, closes |-> 0])
                         ELSE handles
           /\ disk' = IF opened THEN diskAfterOpen(disk) ELSE disk
           /\ logFile' = logFileAfterInit(opened, h)
           /\ stderr' = IF wanted /\ ~opened
                        THEN streamWrite("stderr", <<"failed to open log file", LF>>,
                                         0, outputs).stderr
                        ELSE stderr
           /\ cur' = [cur EXCEPT ![p] = [id |-> 0, w |-> fileWriter, line |-> <<>>,
                                         config |-> config, opened |-> opened]]
    /\ pc' = [pc EXCEPT ![p] = "bind"]
    /\ UNCHANGED <<loggers, logMutex, env, stdout, writing, exitCode, calls, lastOp>>

(* The second step: the nine assignments to Debug .. Fatal, and the return. *)
InitBind(p) ==
    /\ exitCode = -1
    /\ pc[p] = "bind"
    /\ loggers' = [l \in Levels |-> initLogger(cur[p].config, l, cur[p].w, env)]
    /\ lastOp' = [op |-> "Init", path |-> cur[p].config.FilePath,
                  opened |-> cur[p].opened, err |-> "nil", flip |-> ~lastOp.flip,
                  config |-> cur[p].config]
    /\ pc' = [pc EXCEPT ![p] = "idle"]
    /\ cur' = [cur EXCEPT ![p] = Idle]
    /\ UNCHANGED <<enabledLevels, logFile, includeCallerTag, logMutex, env, handles,
                   disk, stdout, stderr, writing, exitCode, calls, nInit>>

(* A Write made directly on a syslogPrefixWriter over outStdout, outside    *)
(* any dispatch call; lastOp keeps the arguments and the count returned.    *)
SyslogWrite(prefix, data) ==
    /\ exitCode = -1
    /\ Quiet
    /\ LET o == writeTo(syslogPrefixWriter(outStdout, prefix), data, 0, outputs)
       IN  /\ stdout' = o.stdout
           /\ stderr' = o.stderr
           /\ disk' = o.disk
           /\ writing' = o.writing
    /\ lastOp' = [op |-> "Write", path |-> "", opened |-> FALSE, err |-> "nil",
                  flip |-> ~lastOp.flip, config |-> lastOp.config,
                  prefix |-> prefix, data |-> data, n |-> syslogCount(data, prefix)]
    /\ UNCHANGED <<enabledLevels, loggers, logFile, includeCallerTag, logMutex, env,
                   handles, pc, cur, exitCode, calls, nInit>>

(* A Write made directly on a plainFileWriter over outStdout, outside any   *)
(* dispatch call; lastOp keeps the argument.                               *)
StripWrite(data) ==
    /\ exitCode = -1
    /\ Quiet
    /\ LET o == writeTo(plainFileWriter(outStdout, "INFO"), data, 0, outputs)
       IN  /\ stdout' = o.stdout
           /\ stderr' = o.stderr
           /\ disk' = o.disk
           /\ writing' = o.writing
    /\ lastOp' = [op |-> "StripWrite", path |-> "", opened |-> FALSE, err |-> "nil",
                  flip |-> ~lastOp.flip, config |-> lastOp.config, data |-> data]
    /\ UNCHANGED <<enabledLevels, loggers, logFile, includeCallerTag, logMutex, env,
                   handles, pc, cur, exitCode, calls, nInit>>

-----------------------------------------------------------------------------
(* The package before any call: the initial values of its variables.        *)

NoEnv == [LOGGER_LEVELS |-> <<>>, JOURNAL_STREAM |-> <<>>]

Config(levels, colorize, path, showLevel, tag) ==
    [Levels |-> levels, Colorize |-> colorize, FilePath |-> path,
     IncludeLevelPrefix |-> showLevel, IncludeCallerTag |-> tag]

Input(entry, level, msg, keyvals, code) ==
    [entry |-> entry, level |-> level, msg |-> msg, keyvals |-> keyvals, code |-> code]

Startup(e) ==
    /\ enabledLevels = allLevelsEnabled
    /\ loggers = [l \in Levels |-> NewLogger(Discard, <<>>, "0")]
    /\ logFile = 0
    /\ includeCallerTag = FALSE
    /\ logMutex = 0
    /\ env = e
    /\ handles = <<>>
    /\ disk = <<>>
    /\ stdout = <<>>
    /\ stderr = <<>>
    /\ writing = [n \in {"stdout", "stderr"} |-> 0]
    /\ pc = [p \in Procs |-> "idle"]
    /\ cur = [p \in Procs |-> Idle]
    /\ exitCode = -1
    /\ calls = <<>>
    /\ lastOp = [op |-> "none", path |-> "", opened |-> FALSE, err |-> "nil",
                 flip |-> FALSE, config |-> Config(NilLevels, FALSE, "", FALSE, FALSE)]
    /\ nInit = 0

-----------------------------------------------------------------------------
(* Spec: one goroutine calls Init, Close and the entry points in any order, *)
(* up to MaxInit Init calls and MaxCalls dispatch calls.                    *)

SomeLevels == LevelList(<<InfoLevel, ErrorLevel>>)

LifeConfigs ==
    {Config(lv, FALSE, path, TRUE, FALSE) :
        lv \in {NilLevels, SomeLevels}, path \in {"", LogPath, BadPath}}
    \cup {Config(NilLevels, TRUE, LogPath, FALSE, TRUE)}

LifeInputs ==
    {Input("f", InfoLevel, <<"a">>, <<>>, 0),
     Input("ln", NoticeLevel, <<"b">>, <<>>, 0),
     Input("kv", FatalLevel, <<"c">>, <<[str |-> TRUE, text |-> <<"k">>],
                                        [str |-> FALSE, text |-> <<"v">>]>>, 0),
     Input("Api", InfoLevel, <<"d">>, <<>>, 404)}

Next ==
    \/ \E config \in LifeConfigs : Quiet /\ Init(config)
    \/ Quiet /\ Close
    \/ \E in \in LifeInputs : Enter(1, in)
    \/ Lock(1)
    \/ Println(1)
    \/ FileWrite(1)
    \/ Leave(1)

Spec == Startup(NoEnv) /\ [][Next]_vars

-----------------------------------------------------------------------------
(* SpecConc: after one Init, two goroutines make dispatch calls             *)
(* concurrently, MaxCalls in all.                                           *)

ConcConfigs ==
    {Config(lv, col, path, TRUE, FALSE) :
        lv \in {NilLevels, SomeLevels}, col \in BOOLEAN, path \in {"", LogPath}}

ConcInputs ==
    {Input("f", InfoLevel, <<"a">>, <<>>, 0),
     Input("ln", DebugLevel, <<"b">>, <<>>, 0),
     Input("kv", WarnLevel, <<"c">>, <<[str |-> TRUE, text |-> <<"k">>],
                                       [str |-> FALSE, text |-> <<"v">>]>>, 0),
     Input("f", ErrorLevel, <<"d">>, <<>>, 0),
     Input("Api", InfoLevel, <<"e">>, <<>>, 200)}

NextConc ==
    \/ \E config \in ConcConfigs : nInit = 0 /\ Init(config)
    \/ \E p \in Procs, in \in ConcInputs : nInit > 0 /\ Enter(p, in)
    \/ \E p \in Procs : Lock(p)
    \/ \E p \in Procs : Println(p)
    \/ \E p \in Procs : FileWrite(p)
    \/ \E p \in Procs : Leave(p)

SpecConc == Startup(NoEnv) /\ [][NextConc]_vars

-----------------------------------------------------------------------------
(* SpecLine: one Init with any configuration under any environment, then    *)
(* one dispatch call through any entry point with any message.              *)

LineEnvs ==
    {[LOGGER_LEVELS |-> lv, JOURNAL_STREAM |-> js] :
        lv \in {<<>>, <<"warning", ",", SP, "FATAL">>},
        js \in {<<>>, <<"8:12345">>}}

LineConfigs ==
    {Config(lv, col, path, show, tag) :
        lv \in {NilLevels, LevelList(<<>>), SomeLevels, LevelList(AllLevels)},
        col \in BOOLEAN,
        path \in {"", LogPath, BadPath},
        show \in BOOLEAN,
        tag \in BOOLEAN}

(* Rendered messages: plain, multi-line, carrying a color code, carrying    *)
(* an escape that is never closed, and an ESC in front of an escape.        *)
LineMsgs ==
    {<<"a">>,
     <<"a", LF, "b">>,
     <<ESC, "[", "31", "m", "a", ESC, "[", "0", "m">>,
     <<"a", ESC, "[", "1">>,
     <<ESC, ESC, "[", "m", "[", "a">>}

LineKeyvals ==
    {<<>>,
     <<[str |-> TRUE, text |-> <<"k">>], [str |-> FALSE, text |-> <<"7">>],
       [str |-> FALSE, text |-> <<"9">>], [str |-> TRUE, text |-> <<"v">>],
       [str |-> TRUE, text |-> <<"odd">>]>>}

LineCodes == {-1, 0, 100, 200, 301, 399, 400, 404, 499, 500, 599}

LineInputs ==
    {Input("f", lv, m, <<>>, 0) : lv \in Levels, m \in LineMsgs}
    \cup {Input("ln", lv, <<"a">>, <<>>, 0) : lv \in Levels}
    \cup {Input("kv", lv, <<"a">>, kv, 0) : lv \in Levels, kv \in LineKeyvals}
    \cup {Input("Api", InfoLevel, <<"a">>, <<>>, code) : code \in LineCodes}

NextLine ==
    \/ \E config \in LineConfigs : nInit = 0 /\ Init(config)
    \/ \E in \in LineInputs : nInit = 1 /\ calls = <<>> /\ Enter(1, in)
    \/ Lock(1)
    \/ Println(1)
    \/ FileWrite(1)
    \/ Leave(1)

SpecLine == (\E e \in LineEnvs : Startup(e)) /\ [][NextLine]_vars

-----------------------------------------------------------------------------
(* SpecLevels: Init under any value of LOGGER_LEVELS of up to MaxEnvLen     *)
(* atoms, with Levels nil, empty or explicit.                               *)

MaxEnvLen == 3

EnvWords == {"info", "warn", "Warning", "CRIT", "critical", "emerg", "EMERGENCY", "bogus"}

EnvAtoms == {SP, ","} \cup EnvWords

(* Words are maximal: no two of them are adjacent. *)
EnvValues ==
    {s \in UNION {[1..k -> EnvAtoms] : k \in 0..MaxEnvLen} :
        \A i \in 1..(Len(s) - 1) : ~(s[i] \in EnvWords /\ s[i + 1] \in EnvWords)}

LevelEnvs == {[LOGGER_LEVELS |-> s, JOURNAL_STREAM |-> <<>>] : s \in EnvValues}

LevelConfigs ==
    {Config(lv, FALSE, "", FALSE, FALSE) : lv \in {NilLevels, LevelList(<<>>), SomeLevels}}

NextLevels == \E config \in LevelConfigs : Init(config)

SpecLevels == (\E e \in LevelEnvs : Startup(e)) /\ [][NextLevels]_vars

-----------------------------------------------------------------------------
(* SpecFields: one InfoKV call with any key/value list of up to MaxKeyvals  *)
(* elements: string keys (one of them empty) and a value that is no string. *)

MaxKeyvals == 5

FieldValues ==
    {[str |-> TRUE, text |-> <<"k">>], [str |-> TRUE, text |-> <<"j">>],
     [str |-> TRUE, text |-> <<>>], [str |-> FALSE, text |-> <<"7">>]}

FieldLists == UNION {[1..n -> FieldValues] : n \in 0..MaxKeyvals}

FieldsConfig == Config(NilLevels, FALSE, LogPath, FALSE, FALSE)

NextFields ==
    \/ nInit = 0 /\ Init(FieldsConfig)
    \/ \E kv \in FieldLists :
          nInit = 1 /\ calls = <<>> /\ Enter(1, Input("kv", InfoLevel, <<"a">>, kv, 0))
    \/ Lock(1)
    \/ Println(1)
    \/ FileWrite(1)
    \/ Leave(1)

SpecFields == Startup(NoEnv) /\ [][NextFields]_vars

-----------------------------------------------------------------------------
(* SpecSyslog: one Write on a syslogPrefixWriter with any payload of up to  *)
(* MaxPayload atoms, with a token and with the empty prefix.                *)

MaxPayload == 4

Payloads == UNION {[1..n -> {"a", "b", LF}] : n \in 0..MaxPayload}

SyslogPrefixes == {<<"<6>">>, <<>>}

NextSyslog ==
    \E prefix \in SyslogPrefixes, data \in Payloads :
        lastOp.op = "none" /\ SyslogWrite(prefix, data)

SpecSyslog == Startup(NoEnv) /\ [][NextSyslog]_vars

-----------------------------------------------------------------------------
(* SpecStrip: one Write on a plainFileWriter, for every byte string of up   *)
(* to MaxStrip bytes over ESC, "[", "m" and one other byte.                 *)

MaxStrip == 6

StripPayloads == UNION {[1..n -> {ESC, "[", "m", "a"}] : n \in 0..MaxStrip}

NextStrip ==
    \E data \in StripPayloads : lastOp.op = "none" /\ StripWrite(data)

SpecStrip == Startup(NoEnv) /\ [][NextStrip]_vars

-----------------------------------------------------------------------------
(* SpecByValue: Init calls with a non-nil Config.Levels: every list of up   *)
(* to MaxList severities out of four, and the list AllLevels() returns,     *)
(* with LOGGER_LEVELS unset or set.                                         *)

MaxList == 3

ValueLists ==
    UNION {[1..n -> {DebugLevel, InfoLevel, ErrorLevel, FatalLevel}] : n \in 0..MaxList}
    \cup {AllLevels}

ValueEnvs == {[LOGGER_LEVELS |-> s, JOURNAL_STREAM |-> <<>>] : s \in {<<>>, <<"CRIT">>}}

ValueConfigs ==
    {Config(LevelList(list), FALSE, "", FALSE, FALSE) : list \in ValueLists}

NextByValue == \E config \in ValueConfigs : Init(config)

SpecByValue == (\E e \in ValueEnvs : Startup(e)) /\ [][NextByValue]_vars

-----------------------------------------------------------------------------
(* SpecRebind: Init and Close calls in any order, up to MaxInit Init calls, *)
(* with JOURNAL_STREAM set or unset.                                        *)

RebindEnvs == {[LOGGER_LEVELS |-> <<>>, JOURNAL_STREAM |-> js] : js \in {<<>>, <<"8:12345">>}}

RebindConfigs ==
    {Config(NilLevels, col, path, show, FALSE) :
        col \in BOOLEAN, path \in {"", LogPath, BadPath}, show \in BOOLEAN}

NextRebind ==
    \/ \E config \in RebindConfigs : Init(config)
    \/ Close

SpecRebind == (\E e \in RebindEnvs : Startup(e)) /\ [][NextRebind]_vars

-----------------------------------------------------------------------------
(* SpecRace: goroutine 2 calls Init while goroutine 1 makes dispatch calls. *)

RaceConfigs ==
    {Config(NilLevels, FALSE, LogPath, TRUE, FALSE),
     Config(LevelList(<<ErrorLevel>>), TRUE, "", TRUE, FALSE)}

RaceInputs ==
    {Input("f", InfoLevel, <<"a">>, <<>>, 0),
     Input("ln", ErrorLevel, <<"b">>, <<>>, 0)}

NextRace ==
    \/ \E config \in RaceConfigs : InitResolve(2, config)
    \/ InitBind(2)
    \/ \E in \in RaceInputs : Enter(1, in)
    \/ Lock(1)
    \/ Println(1)
    \/ FileWrite(1)
    \/ Leave(1)

SpecRace == Startup(NoEnv) /\ [][NextRace]_vars

-----------------------------------------------------------------------------
(* SpecLive: SpecConc's two goroutines, fatal calls included, under fair    *)
(* scheduling: a goroutine that can take its next step takes it (Write     *)
(* calls return), and a goroutine waiting in logMutex.Lock gets the lock   *)
(* if it is free again and again (sync.Mutex hands the lock to a waiter    *)
(* that has starved).                                                       *)

LiveConfigs ==
    {Config(NilLevels, FALSE, LogPath, TRUE, FALSE),
     Config(SomeLevels, TRUE, "", TRUE, FALSE)}

LiveInputs ==
    {Input("f", InfoLevel, <<"a">>, <<>>, 0),
     Input("kv", WarnLevel, <<"c">>, <<[str |-> TRUE, text |-> <<"k">>],
                                       [str |-> FALSE, text |-> <<"v">>]>>, 0),
     Input("ln", FatalLevel, <<"x">>, <<>>, 0)}

NextLive ==
    \/ \E config \in LiveConfigs : nInit = 0 /\ Init(config)
    \/ \E p \in Procs, in \in LiveInputs : nInit > 0 /\ Enter(p, in)
    \/ \E p \in Procs : Lock(p)
    \/ \E p \in Procs : Println(p)
    \/ \E p \in Procs : FileWrite(p)
    \/ \E p \in Procs : Leave(p)

Fairness ==
    \A p \in Procs :
        /\ SF_vars(Lock(p))
        /\ WF_vars(Println(p))
        /\ WF_vars(FileWrite(p))
        /\ WF_vars(Leave(p))

SpecLive == Startup(NoEnv) /\ [][NextLive]_vars /\ Fairness

-----------------------------------------------------------------------------
(* Vocabulary of the properties.                                            *)

CallIds == 1..Len(calls)

(* The records call id left in a sink. *)
RecsOf(sink, id) == {i \in 1..Len(sink) : sink[i].call = id}

Silent(id) ==
    /\ RecsOf(stdout, id) = {}
    /\ RecsOf(stderr, id) = {}
    /\ RecsOf(disk, id) = {}

Finished(id) == calls[id].status \in {"returned", "exited"}

FatalCall(id) ==
    calls[id].in.entry \in {"f", "ln", "kv"} /\ calls[id].in.level = FatalLevel

(* Newlines in a byte string. *)
NewlinesIn(s) == Cardinality({i \in 1..Len(s) : s[i] = LF})

-----------------------------------------------------------------------------
(* C1: a dispatch call for a non-fatal severity that is not in the enabled  *)
(* set returns at once: it writes nothing to stdout, stderr or the log      *)
(* file and never takes logMutex.                                           *)
C1_DisabledIsSilent ==
    \A id \in CallIds :
        (~calls[id].wasEnabled /\ ~FatalCall(id)) =>
            /\ calls[id].status = "returned"
            /\ ~calls[id].locked
            /\ Silent(id)

(* A disabled Api call has returned while a log file is open. *)
C1_Witness ==
    \E id \in CallIds :
        /\ calls[id].in.entry = "Api"
        /\ ~calls[id].wasEnabled
        /\ calls[id].status = "returned"
        /\ logFile # 0
        /\ handles[logFile].open

-----------------------------------------------------------------------------
(* The console records of call id, from both streams. *)
ConsoleData(id) ==
    {stdout[i].data : i \in RecsOf(stdout, id)} \cup {stderr[i].data : i \in RecsOf(stderr, id)}

ConsoleWrites(id) == Cardinality(RecsOf(stdout, id)) + Cardinality(RecsOf(stderr, id))

(* The bracketed severity names of the specification. *)
C2_Bracket(level) ==
    CASE level = DebugLevel -> <<"[", "DEBUG", "]">>
      [] level = InfoLevel -> <<"[", "INFO", "]">>
      [] level = NoticeLevel -> <<"[", "NOTICE", "]">>
      [] level = WarnLevel -> <<"[", "WARNING", "]">>
      [] level = ErrorLevel -> <<"[", "ERROR", "]">>
      [] level = CritLevel -> <<"[", "CRIT", "]">>
      [] level = AlertLevel -> <<"[", "ALERT", "]">>
      [] level = EmergLevel -> <<"[", "EMERG", "]">>
      [] level = FatalLevel -> <<"[", "FATAL", "]">>

(* C2 as stated: after Init, a finished dispatch call for an enabled        *)
(* severity has written exactly one line to the console; the line holds    *)
(* the rendered message and, with IncludeLevelPrefix, the bracketed name.   *)
C2_Claim ==
    \A id \in CallIds :
        (calls[id].wasEnabled /\ Finished(id)) =>
            /\ ConsoleWrites(id) = 1
            /\ \A d \in ConsoleData(id) :
                  /\ d[Len(d)] = LF
                  /\ NewlinesIn(d) = 1
                  /\ Contains(d, renderBody(calls[id].in))
                  /\ lastOp.config.IncludeLevelPrefix =>
                        Contains(d, C2_Bracket(calls[id].level))

(* C2 amended: after Init, a finished dispatch call for an enabled          *)
(* severity has made exactly one write to the console, ending in a         *)
(* newline; it is one line holding the rendered message when the message   *)
(* has no newline, and every newline of the message adds a line; with      *)
(* IncludeLevelPrefix the write holds the bracketed name of the severity.   *)
C2_OneWrite ==
    \A id \in CallIds :
        (calls[id].wasEnabled /\ Finished(id)) =>
            LET body == renderBody(calls[id].in)
            IN  /\ ConsoleWrites(id) = 1
                /\ \A d \in ConsoleData(id) :
                      /\ d[Len(d)] = LF
                      /\ NewlinesIn(d) = 1 + NewlinesIn(body)
                      /\ NewlinesIn(body) = 0 => Contains(d, body)
                      /\ lastOp.config.IncludeLevelPrefix =>
                            Contains(d, C2_Bracket(calls[id].level))

(* A warning call has returned under Colorize and IncludeLevelPrefix, and   *)
(* its console line holds [WARNING].                                        *)
C2_Witness ==
    \E id \in CallIds :
        /\ calls[id].level = WarnLevel
        /\ calls[id].wasEnabled
        /\ calls[id].status = "returned"
        /\ lastOp.config.IncludeLevelPrefix
        /\ lastOp.config.Colorize
        /\ \E d \in ConsoleData(id) : Contains(d, <<"[", "WARNING", "]">>)

-----------------------------------------------------------------------------
(* The console policy of the specification. *)
C3_Stdout == {DebugLevel, InfoLevel, NoticeLevel}

(* C3: after any Init, the console copy of a debug, info or notice line is  *)
(* on stdout only and that of every other severity on stderr only, and a   *)
(* finished enabled call has its copy.                                      *)
C3_Routing ==
    \A id \in CallIds :
        /\ calls[id].level \in C3_Stdout => RecsOf(stderr, id) = {}
        /\ calls[id].level \notin C3_Stdout => RecsOf(stdout, id) = {}
        /\ (calls[id].wasEnabled /\ Finished(id)) =>
              IF calls[id].level \in C3_Stdout
              THEN RecsOf(stdout, id) # {}
              ELSE RecsOf(stderr, id) # {}

(* A notice call wrote to stdout and the log file under Colorize. *)
C3_Witness ==
    \E id \in CallIds :
        /\ calls[id].level = NoticeLevel
        /\ Finished(id)
        /\ RecsOf(stdout, id) # {}
        /\ RecsOf(disk, id) # {}
        /\ lastOp.config.Colorize

-----------------------------------------------------------------------------
ConsoleSeqs(id) ==
    {stdout[i].seq : i \in RecsOf(stdout, id)} \cup {stderr[i].seq : i \in RecsOf(stderr, id)}

FileSeqs(id) == {disk[i].seq : i \in RecsOf(disk, id)}

Untorn(stream) == \A i \in 1..Len(stream) : ~stream[i].torn

(* C4: with two goroutines dispatching concurrently after one Init, the     *)
(* console streams hold exactly one whole line per enabled call that has   *)
(* returned, none for a disabled call, never two for one call, and no      *)
(* write is interleaved with another.                                       *)
C4_OneWholeLinePerCall ==
    /\ Untorn(stdout)
    /\ Untorn(stderr)
    /\ \A id \in CallIds :
          /\ ConsoleWrites(id) <= 1
          /\ ~calls[id].wasEnabled => ConsoleWrites(id) = 0
          /\ (calls[id].wasEnabled /\ calls[id].status = "returned") =>
                /\ ConsoleWrites(id) = 1
                /\ \A d \in ConsoleData(id) :
                      /\ d[Len(d)] = LF
                      /\ NewlinesIn(d) = 1
                      /\ Contains(d, renderBody(calls[id].in))

(* Two goroutines logged to stdout and the call entered second wrote first. *)
C4_Witness ==
    /\ Len(calls) >= 2
    /\ calls[1].p # calls[2].p
    /\ calls[1].status = "returned"
    /\ calls[2].status = "returned"
    /\ Len(stdout) >= 2
    /\ stdout[1].call = 2
    /\ stdout[2].call = 1

(* C5: with file logging active the file write of a call comes right after *)
(* its console write, with no write of another call between them, so the   *)
(* file holds the lines in the order of their console copies; a call that  *)
(* has returned left both copies.                                           *)
C5_FileFollowsConsole ==
    /\ \A id \in CallIds :
          /\ \A f \in FileSeqs(id) : \E c \in ConsoleSeqs(id) : f = c + 1
          /\ (calls[id].wasEnabled /\ calls[id].status = "returned" /\ lastOp.opened) =>
                FileSeqs(id) # {} /\ ConsoleSeqs(id) # {}
    /\ \A a, b \in CallIds :
          \A fa \in FileSeqs(a), fb \in FileSeqs(b), ca \in ConsoleSeqs(a), cb \in ConsoleSeqs(b) :
              (ca < cb) <=> (fa < fb)

(* Two goroutines logged to the file, the call entered second first. *)
C5_Witness ==
    /\ Len(calls) >= 2
    /\ calls[1].p # calls[2].p
    /\ Len(disk) >= 2
    /\ disk[1].call = 2
    /\ disk[2].call = 1
    /\ calls[1].level = InfoLevel
    /\ calls[2].level = ErrorLevel

-----------------------------------------------------------------------------
(* The entry point of call id can take its next step. *)
CanStep(id) ==
    LET p == calls[id].p
    IN  ENABLED (Lock(p) \/ Println(p) \/ FileWrite(p) \/ Leave(p))

(* C6: a call of Fatalf, Fatalln or FatalKV never returns and ends in       *)
(* os.Exit(1): with fatal disabled it exits at once, having written         *)
(* nothing and without the lock; with fatal enabled it takes the lock and   *)
(* its line is on stderr (and in the file when one was opened) by the time *)
(* the process exits; until then its next step can always be taken.        *)
C6_FatalExits ==
    \A id \in CallIds :
        FatalCall(id) =>
            /\ calls[id].status # "returned"
            /\ calls[id].status = "running" => exitCode = -1 /\ CanStep(id)
            /\ calls[id].status = "exited" => exitCode = 1
            /\ ~calls[id].wasEnabled =>
                  /\ calls[id].status = "exited"
                  /\ ~calls[id].locked
                  /\ Silent(id)
            /\ (calls[id].wasEnabled /\ calls[id].status = "exited") =>
                  /\ calls[id].locked
                  /\ RecsOf(stderr, id) # {}
                  /\ lastOp.opened => RecsOf(disk, id) # {}

(* An enabled fatal call has exited with its line on stderr and in the file. *)
C6_Witness ==
    \E id \in CallIds :
        /\ FatalCall(id)
        /\ calls[id].wasEnabled
        /\ calls[id].status = "exited"
        /\ exitCode = 1
        /\ RecsOf(stderr, id) # {}
        /\ RecsOf(disk, id) # {}

-----------------------------------------------------------------------------
(* The step is a call of Close. *)
CloseStep == lastOp'.flip # lastOp.flip /\ lastOp'.op = "Close"

(* C7: a Close made while no handle is held (none opened, the open failed,  *)
(* or already closed) returns nil and changes nothing; every Close leaves   *)
(* no handle held, so a Close that follows a Close returns nil.             *)
C7_CloseIdempotent ==
    [][CloseStep =>
          /\ logFile' = 0
          /\ logFile = 0 =>
                /\ lastOp'.err = "nil"
                /\ UNCHANGED <<enabledLevels, loggers, logFile, includeCallerTag,
                               logMutex, env, handles, disk, stdout, stderr, writing,
                               pc, cur, exitCode, calls, nInit>>
          /\ lastOp.op = "Close" => lastOp'.err = "nil"]_vars

(* Close was called again after a Close that closed an opened file. *)
C7_Witness ==
    /\ lastOp.op = "Close"
    /\ ~lastOp.opened
    /\ lastOp.err = "nil"
    /\ logFile = 0
    /\ \E h \in 1..Len(handles) : handles[h].closes = 1 /\ ~handles[h].open

-----------------------------------------------------------------------------
(* No logger fans out to a file. *)
ConsoleOnly == \A l \in Levels : loggers[l].out.kind # "multi"

(* The diagnostic of Init is on stderr. *)
Diagnosed == \E i \in 1..Len(stderr) : stderr[i].call = 0

(* C8: once Init has failed to open its file, whatever the state before:   *)
(* no crash came of it, the diagnostic is on stderr, the loggers write to  *)
(* the console only, and logFile is nil.                                    *)
C8_FailedOpenLeavesNoFile ==
    (lastOp.op = "Init" /\ lastOp.path # "" /\ ~lastOp.opened) =>
        /\ calls = <<>> => exitCode = -1
        /\ Diagnosed
        /\ ConsoleOnly
        /\ logFile = 0

-----------------------------------------------------------------------------
IsPrefix(s, t) == Len(s) <= Len(t) /\ SubSeq(t, 1, Len(s)) = s

(* C9: no step removes or changes bytes of the file: after every step the   *)
(* file begins with what it held, and what is added is one write of a      *)
(* dispatch call in progress, placed at the end.                            *)
C9_AppendOnly ==
    [][/\ IsPrefix(disk, disk')
       /\ disk' # disk =>
             /\ Len(disk') = Len(disk) + 1
             /\ disk'[Len(disk')].call \in CallIds
             /\ calls[disk'[Len(disk')].call].status = "running"]_vars

(* Init(path), log, Close, Init(path), log: the file holds the line of the *)
(* first session, then the line of the second.                              *)
C9_Witness ==
    /\ Len(disk) = 2
    /\ Len(handles) = 2
    /\ handles[1].path = handles[2].path
    /\ handles[1].closes = 1
    /\ disk[1].h = 1
    /\ disk[1].call = 1
    /\ disk[2].h = 2
    /\ disk[2].call = 2

-----------------------------------------------------------------------------
AnsiStart == <<ESC, "[">>

(* C10: whatever the message and whether Colorize is on or off, nothing     *)
(* written to the file holds ESC followed by "[", and with Colorize and    *)
(* the level prefix on the console copy holds it.                           *)
C10_FileHasNoAnsi ==
    /\ \A i \in 1..Len(disk) : ~Contains(disk[i].data, AnsiStart)
    /\ \A id \in CallIds :
          (lastOp.config.Colorize /\ lastOp.config.IncludeLevelPrefix) =>
              \A d \in ConsoleData(id) : Contains(d, AnsiStart)

-----------------------------------------------------------------------------
(* The rendered date and time with its space, as the file shows it. *)
Stamp == <<"TS", SP>>

(* The bracket and the caller tag a line of call id carries under the      *)
(* latest configuration.                                                    *)
BracketPart(id) ==
    IF lastOp.config.IncludeLevelPrefix THEN C2_Bracket(calls[id].level) \o <<SP>> ELSE <<>>

TagPart == IF lastOp.config.IncludeCallerTag THEN <<"[", "app.run:42", "]", SP>> ELSE <<>>

(* C11 as stated: whatever is written to the file for a dispatch call       *)
(* begins with the timestamp, in both Colorize modes, prefix on or off.    *)
C11_Claim ==
    \A i \in 1..Len(disk) : HasPrefix(disk[i].data, Stamp)

(* C11 amended: with Colorize off the file write of a dispatch call is the  *)
(* timestamp, then the level bracket, the caller tag, the message and a    *)
(* newline; with Colorize on it begins with the level bracket (when the    *)
(* prefix is on), then the timestamp, then the caller tag.                  *)
C11_FileStamp ==
    \A i \in 1..Len(disk) :
        LET id == disk[i].call
        IN  IF lastOp.config.Colorize
            THEN HasPrefix(disk[i].data, BracketPart(id) \o Stamp \o TagPart)
            ELSE disk[i].data =
                     Stamp \o BracketPart(id) \o TagPart \o renderBody(calls[id].in) \o <<LF>>

(* Under Colorize with the level prefix a file write begins with the        *)
(* bracket; under plain mode with the prefix one begins with the timestamp. *)
C11_Witness ==
    \E i \in 1..Len(disk) :
        /\ lastOp.config.Colorize
        /\ lastOp.config.IncludeLevelPrefix
        /\ lastOp.config.IncludeCallerTag
        /\ disk[i].data[1] = "["
        /\ Contains(disk[i].data, Stamp)
        /\ Finished(disk[i].call)

-----------------------------------------------------------------------------
(* The spellings each severity is enabled by, in any case. *)
C14_Names(level) ==
    CASE level = DebugLevel -> {"debug", "Debug", "DEBUG"}
      [] level = InfoLevel -> {"info", "Info", "INFO"}
      [] level = NoticeLevel -> {"notice", "NOTICE"}
      [] level = WarnLevel -> {"warning", "Warning", "WARNING"}
      [] level = ErrorLevel -> {"error", "ERROR"}
      [] level = CritLevel -> {"crit", "CRIT", "critical", "CRITICAL"}
      [] level = AlertLevel -> {"alert", "ALERT"}
      [] level = EmergLevel -> {"emerg", "EMERG", "emergency", "EMERGENCY"}
      [] level = FatalLevel -> {"fatal", "FATAL"}

(* The positions that bound the comma-separated tokens of s. *)
C14_Cuts(s) == {0, Len(s) + 1} \cup {i \in 1..Len(s) : s[i] = ","}

(* The token between the cuts a and b names the level: apart from spaces   *)
(* it is one word, a spelling of the level.                                 *)
C14_TokenNames(s, a, b, level) ==
    LET words == {i \in (a + 1)..(b - 1) : s[i] # SP}
    IN  /\ Cardinality(words) = 1
        /\ \A i \in words : s[i] \in C14_Names(level)

C14_Parsed(s) ==
    {level \in Levels :
        \E a, b \in C14_Cuts(s) :
            /\ a < b
            /\ \A c \in C14_Cuts(s) : ~(a < c /\ c < b)
            /\ C14_TokenNames(s, a, b, level)}

Blank(s) == \A i \in 1..Len(s) : s[i] = SP

(* C13: after Init the enabled set is the set of the explicit Levels when   *)
(* Levels is non-nil (none for an empty list), whatever LOGGER_LEVELS      *)
(* holds; otherwise what LOGGER_LEVELS lists when it is non-empty, all     *)
(* nine when it is only spaces; otherwise all nine.                         *)
C13_EnabledSet ==
    lastOp.op = "Init" =>
        LET lv == lastOp.config.Levels
            s == env.LOGGER_LEVELS
        IN  enabledLevels =
                IF ~lv.nil THEN Range(lv.list)
                ELSE IF s = <<>> \/ Blank(s) THEN Levels
                ELSE C14_Parsed(s)

(* Init with an empty non-nil Levels under a LOGGER_LEVELS that lists a     *)
(* severity: nothing is enabled.                                            *)
C13_Witness ==
    /\ lastOp.op = "Init"
    /\ lastOp.config.Levels = LevelList(<<>>)
    /\ env.LOGGER_LEVELS = <<"info", ",", "CRIT">>
    /\ enabledLevels = {}

(* C14: under nil Levels and a LOGGER_LEVELS that is not blank, a severity  *)
(* is enabled exactly when some comma-separated token, trimmed and taken   *)
(* case-insensitively, is one of its spellings; WARN is no spelling, and   *)
(* a token that is no spelling changes nothing for the others.              *)
C14_ParsedList ==
    (lastOp.op = "Init" /\ lastOp.config.Levels.nil /\ ~Blank(env.LOGGER_LEVELS)) =>
        /\ \A level \in Levels :
              level \in enabledLevels <=> level \in C14_Parsed(env.LOGGER_LEVELS)
        /\ (\A i \in 1..Len(env.LOGGER_LEVELS) :
                env.LOGGER_LEVELS[i] \in {SP, ",", "warn", "bogus"}) => enabledLevels = {}

(* "warn, critical" read with nil Levels enables critical alone. *)
C14_Witness ==
    /\ lastOp.op = "Init"
    /\ lastOp.config.Levels.nil
    /\ env.LOGGER_LEVELS = <<"warn", ",", "critical">>
    /\ enabledLevels = {CritLevel}

-----------------------------------------------------------------------------
(* The fields of the first n pairs of kv: a space and key=value for each    *)
(* pair whose key is a string, in order.                                    *)
RECURSIVE C15_Pairs(_, _)
C15_Pairs(kv, n) ==
    IF n = 0 THEN <<>>
    ELSE C15_Pairs(kv, n - 1)
         \o (IF kv[2 * n - 1].str
             THEN <<SP>> \o kv[2 * n - 1].text \o <<"=">> \o kv[2 * n].text
             ELSE <<>>)

(* C15: the text encodeFields adds to the message of a KV call is, for the  *)
(* pairs at positions (0,1), (2,3), ... whose key is a string, in order,   *)
(* a space and key=value each (one space in front, single spaces between), *)
(* a trailing unmatched element dropped; nothing when no pair survives.     *)
C15_Fields ==
    \A id \in CallIds :
        calls[id].in.entry = "kv" =>
            LET kv == calls[id].in.keyvals
                survivors == {n \in 1..(Len(kv) \div 2) : kv[2 * n - 1].str}
            IN  \A d \in ConsoleData(id) :
                    /\ d = calls[id].in.msg \o C15_Pairs(kv, Len(kv) \div 2) \o <<LF>>
                    /\ survivors = {} => d = calls[id].in.msg \o <<LF>>

(* InfoKV("a", "k", 7, 7, "k", "j"): the pair under the key 7 and the       *)
(* unmatched "j" are dropped.                                               *)
C15_Witness ==
    \E id \in CallIds :
        /\ calls[id].status = "returned"
        /\ Len(calls[id].in.keyvals) = 5
        /\ ~calls[id].in.keyvals[3].str
        /\ ConsoleData(id) = {<<"a", SP, "k", "=", "7", LF>>}

-----------------------------------------------------------------------------
(* The severity the specification gives a status code. *)
C16_Level(code) ==
    IF code >= 500 THEN ErrorLevel
    ELSE IF code >= 400 /\ code <= 499 THEN WarnLevel
    ELSE InfoLevel

(* C16: Api(code, msg) logs at error for code >= 500, at warning for        *)
(* 400..499 and at info for every other code; when that severity is        *)
(* enabled it writes one line holding "[code] msg" on that severity's      *)
(* stream, with that severity's bracket when the prefix is on, and         *)
(* nothing on the other stream; when it is not enabled it writes nothing.   *)
C16_Api ==
    \A id \in CallIds :
        calls[id].in.entry = "Api" =>
            LET code == calls[id].in.code
                level == C16_Level(code)
                mine == IF level = InfoLevel THEN stdout ELSE stderr
                other == IF level = InfoLevel THEN stderr ELSE stdout
            IN  /\ calls[id].wasEnabled <=> level \in enabledLevels
                /\ level \notin enabledLevels =>
                      calls[id].status = "returned" /\ Silent(id)
                /\ RecsOf(other, id) = {}
                /\ \A i \in RecsOf(mine, id) :
                      /\ Contains(mine[i].data,
                                  <<"[", ToString(code), "]", SP>> \o calls[id].in.msg \o <<LF>>)
                      /\ lastOp.config.IncludeLevelPrefix =>
                            Contains(mine[i].data, C2_Bracket(level))
                /\ (level \in enabledLevels /\ Finished(id)) =>
                      Cardinality(RecsOf(mine, id)) = 1

(* Api(399, "a") has written "[INFO] ... [399] a" to stdout. *)
C16_Witness ==
    \E id \in CallIds :
        /\ calls[id].in.entry = "Api"
        /\ calls[id].in.code = 399
        /\ calls[id].status = "returned"
        /\ \E i \in RecsOf(stdout, id) :
              /\ Contains(stdout[i].data, <<"[", "INFO", "]">>)
              /\ Contains(stdout[i].data, <<"[", "399", "]", SP, "a", LF>>)

-----------------------------------------------------------------------------
(* The syslog priority of each severity. *)
C17_Token(level) ==
    CASE level = EmergLevel -> "<0>"
      [] level = AlertLevel -> "<1>"
      [] level = CritLevel -> "<2>"
      [] level = ErrorLevel -> "<3>"
      [] level = WarnLevel -> "<4>"
      [] level = NoticeLevel -> "<5>"
      [] level = InfoLevel -> "<6>"
      [] level = DebugLevel -> "<7>"
      [] level = FatalLevel -> "<2>"

C17_Tokens == {"<0>", "<1>", "<2>", "<3>", "<4>", "<5>", "<6>", "<7>"}

(* C17: the console write of a call begins with the priority token of its   *)
(* severity when Init ran with Colorize off under a non-empty              *)
(* JOURNAL_STREAM, and holds no token otherwise; no file write holds one.   *)
C17_SyslogToken ==
    /\ \A id \in CallIds : \A d \in ConsoleData(id) :
          IF ~lastOp.config.Colorize /\ env.JOURNAL_STREAM # <<>>
          THEN d[1] = C17_Token(calls[id].level)
          ELSE Range(d) \cap C17_Tokens = {}
    /\ \A i \in 1..Len(disk) : Range(disk[i].data) \cap C17_Tokens = {}

(* A fatal line under JOURNAL_STREAM with a file: <2> on stderr, none in    *)
(* the file.                                                                *)
C17_Witness ==
    \E id \in CallIds :
        /\ calls[id].level = FatalLevel
        /\ env.JOURNAL_STREAM # <<>>
        /\ \E i \in RecsOf(stderr, id) : stderr[i].data[1] = "<2>"
        /\ \E i \in RecsOf(disk, id) : "<2>" \notin Range(disk[i].data)

-----------------------------------------------------------------------------
(* s without the atoms equal to t. *)
RECURSIVE Without(_, _)
Without(s, t) ==
    IF s = <<>> THEN <<>>
    ELSE (IF Head(s) = t THEN <<>> ELSE <<Head(s)>>) \o Without(Tail(s), t)

(* C18: a Write of a non-empty payload on a syslogPrefixWriter with a token *)
(* hands its stream one buffer: the token, then the payload with the token *)
(* after every newline that is not the last byte; the payload is intact    *)
(* and in order, the buffer does not end in a token, and the count         *)
(* returned is the length of the payload.                                   *)
C18_SyslogWrite ==
    (lastOp.op = "Write" /\ lastOp.prefix # <<>> /\ lastOp.data # <<>>) =>
        /\ Len(stdout) = 1
        /\ LET out == stdout[1].data
               token == lastOp.prefix[1]
           IN  /\ out[1] = token
               /\ \A i \in 2..Len(out) : out[i] = token <=> out[i - 1] = LF
               /\ out[Len(out)] # token
               /\ Without(out, token) = lastOp.data
        /\ lastOp.n = Len(lastOp.data)

(* Write("a\nb\n") handed "<6>a\n<6>b\n" to stdout and returned the length  *)
(* of the payload.                                                          *)
C18_Witness ==
    /\ lastOp.op = "Write"
    /\ lastOp.data = <<"a", LF, "b", LF>>
    /\ Len(stdout) = 1
    /\ stdout[1].data = <<"<6>", "a", LF, "<6>", "b", LF>>
    /\ lastOp.n = 4

-----------------------------------------------------------------------------
(* C19: once Init(c) has returned, every one of the nine loggers is as c    *)
(* and the environment say, whatever Init and Close calls came before:     *)
(* its console stream by severity, date flags and color codes by           *)
(* c.Colorize, its bracket by c.IncludeLevelPrefix, its syslog writer by   *)
(* c.Colorize and JOURNAL_STREAM, and its file side present exactly when   *)
(* c.FilePath was opened, writing to the handle this Init opened.           *)
C19_InitRebindsAll ==
    lastOp.op = "Init" =>
        \A level \in Levels :
            LET l == loggers[level]
                c == lastOp.config
                fan == l.out.kind = "multi"
                console == IF fan THEN l.out.first ELSE l.out
                sys == console.kind = "syslog"
                stream == IF sys THEN console.w ELSE console
            IN  /\ stream = IF level \in C3_Stdout THEN outStdout ELSE outStderr
                /\ sys <=> (~c.Colorize /\ env.JOURNAL_STREAM # <<>>)
                /\ sys => console.prefix = <<C17_Token(level)>>
                /\ l.flags = "LstdFlags" <=> c.Colorize
                /\ l.prefix # <<>> <=> c.IncludeLevelPrefix
                /\ c.IncludeLevelPrefix => Contains(l.prefix, C2_Bracket(level))
                /\ Contains(l.prefix, AnsiStart) <=> (c.IncludeLevelPrefix /\ c.Colorize)
                /\ fan <=> c.FilePath = LogPath
                /\ fan =>
                      /\ l.out.second.kind = IF c.Colorize THEN "plainFile" ELSE "timestamp"
                      /\ l.out.second.w = FileWriter(Len(handles))
                      /\ handles[Len(handles)].open
                      /\ handles[Len(handles)].path = c.FilePath

(* A second Init, colorized and without a file, after an Init that opened   *)
(* one: no logger fans out to the file any more.                            *)
C19_Witness ==
    /\ lastOp.op = "Init"
    /\ nInit = 2
    /\ lastOp.config.Colorize
    /\ lastOp.config.FilePath = ""
    /\ Len(handles) = 1
    /\ handles[1].open
    /\ ConsoleOnly
    /\ \A level \in Levels : loggers[level].flags = "LstdFlags"

-----------------------------------------------------------------------------
(* C20: an enabled dispatch call made while file logging is active has,     *)
(* once finished, added exactly one write to the file, and it is one line: *)
(* it ends in a newline and holds no other, for every message and in both  *)
(* Colorize modes.                                                          *)
C20_OneLinePerCall ==
    \A id \in CallIds :
        (calls[id].wasEnabled /\ Finished(id) /\ lastOp.opened) =>
            /\ Cardinality(RecsOf(disk, id)) = 1
            /\ \A i \in RecsOf(disk, id) :
                  /\ disk[i].data[Len(disk[i].data)] = LF
                  /\ NewlinesIn(disk[i].data) = 1

-----------------------------------------------------------------------------
(* C21: Init is never made to wait by logMutex and never holds it, and a    *)
(* dispatch call decides enablement before it locks: a call that found     *)
(* its severity disabled never locks, and every line written is of a call  *)
(* that found its severity enabled when it checked, whatever Init has      *)
(* done since.                                                              *)
C21_InitOutsideLock ==
    /\ logMutex \in {0, 1}
    /\ (exitCode = -1 /\ pc[2] = "idle" /\ nInit < MaxInit) =>
          ENABLED (\E config \in RaceConfigs : InitResolve(2, config))
    /\ (exitCode = -1 /\ pc[2] = "bind") => ENABLED InitBind(2)
    /\ \A id \in CallIds :
          /\ ~calls[id].wasEnabled => ~calls[id].locked
          /\ ~Silent(id) => calls[id].wasEnabled

(* The second Init has returned, colorized and with info disabled, and an   *)
(* info call that had passed its check before has its line out in color.   *)
C21_Witness ==
    \E id \in CallIds :
        /\ nInit = 2
        /\ pc[2] = "idle"
        /\ lastOp.op = "Init"
        /\ lastOp.config.Colorize
        /\ calls[id].level = InfoLevel
        /\ InfoLevel \notin enabledLevels
        /\ calls[id].status = "returned"
        /\ \E d \in ConsoleData(id) : Contains(d, AnsiStart)

-----------------------------------------------------------------------------
(* The step is a call of Init returning. *)
InitStep == lastOp'.flip # lastOp.flip /\ lastOp'.op = "Init"

(* The step belongs to a dispatch call. *)
DispatchStep == calls' # calls \/ pc' # pc

(* C22: the enabled set, the nine loggers and the caller-tag flag change    *)
(* in no step but one of Init: no step of a dispatch call, enabled or not, *)
(* of any style, and no Close changes them, and no step of a dispatch call *)
(* changes logFile.                                                         *)
C22_OnlyInitRebinds ==
    [][/\ ~InitStep => UNCHANGED <<enabledLevels, loggers, includeCallerTag>>
       /\ CloseStep => UNCHANGED <<enabledLevels, loggers, includeCallerTag>>
       /\ DispatchStep => UNCHANGED <<enabledLevels, loggers, includeCallerTag, logFile>>]_vars

(* Under a restricted enabled set with a file open: a disabled Api call     *)
(* and an enabled KV call have been made, then Close, and the set and the  *)
(* bindings are as Init left them.                                          *)
C22_Witness ==
    /\ lastOp.op = "Close"
    /\ lastOp.opened
    /\ enabledLevels = {InfoLevel, ErrorLevel}
    /\ ~ConsoleOnly
    /\ Len(calls) = 2
    /\ \E id \in CallIds : calls[id].in.entry = "Api" /\ ~calls[id].wasEnabled
    /\ \E id \in CallIds : calls[id].in.entry = "f" /\ calls[id].status = "returned"
                           /\ calls[id].wasEnabled

-----------------------------------------------------------------------------
(* The goroutines between logMutex.Lock and the end of their entry point. *)
Holders == {p \in Procs : pc[p] \in {"print", "file", "unlock"}}

C23_Safe ==
    /\ Cardinality(Holders) <= 1
    /\ \A p \in Procs : p \in Holders <=> logMutex = p
    /\ Quiet => logMutex = 0
    /\ \A id \in CallIds :
          (calls[id].status = "returned" /\ calls[id].locked) =>
              (logMutex = calls[id].p => pc[calls[id].p] # "idle")

(* C23: at most one dispatch call is between Lock and its end, the lock is  *)
(* held exactly by that call, it is free whenever no call is in progress   *)
(* and after a non-fatal call that took it has returned; and under fair    *)
(* scheduling every call in progress returns, unless a fatal call has      *)
(* ended the process.                                                       *)
C23_LockReleased ==
    /\ []C23_Safe
    /\ \A p \in Procs : (pc[p] # "idle") ~> (pc[p] = "idle" \/ exitCode = 1)

(* Goroutine 1 entered first and waited in Lock while goroutine 2 logged;   *)
(* both calls have returned and the lock is free.                           *)
C23_Witness ==
    /\ Len(calls) = 2
    /\ calls[1].p = 1
    /\ calls[2].p = 2
    /\ calls[1].locked /\ calls[1].status = "returned"
    /\ calls[2].locked /\ calls[2].status = "returned"
    /\ Quiet
    /\ logMutex = 0
    /\ Len(stdout) = 2
    /\ stdout[1].call = 2
    /\ exitCode = -1

-----------------------------------------------------------------------------
(* C24: a Close that holds a handle closes it once, returns the error of    *)
(* that close and drops the handle; the Close after a failed one returns   *)
(* nil and touches neither a handle nor the file's contents.               *)
C24_CloseNotRetried ==
    [][CloseStep =>
          /\ logFile # 0 =>
                /\ lastOp'.err = lastOp'.ferr
                /\ logFile' = 0
                /\ handles'[logFile].closes = handles[logFile].closes + 1
                /\ \A h \in DOMAIN handles :
                      h # logFile => handles'[h] = handles[h]
          /\ (lastOp.op = "Close" /\ lastOp.err = "EIO") =>
                /\ lastOp'.err = "nil"
                /\ handles' = handles
                /\ disk' = disk
                /\ logFile' = 0]_vars

(* A Close has just failed: the error is returned, the handle is dropped    *)
(* and was closed once.                                                     *)
C24_Witness ==
    /\ lastOp.op = "Close"
    /\ lastOp.opened
    /\ lastOp.err = "EIO"
    /\ logFile = 0
    /\ \E h \in DOMAIN handles : handles[h].closes = 1 /\ ~handles[h].open

-----------------------------------------------------------------------------
(* The handles that are open and that Close can no longer reach. *)
Leaked == {h \in DOMAIN handles : handles[h].open /\ h # logFile}

(* The step is an Init that opened its file. *)
OpenStep == InitStep /\ lastOp'.opened

(* C25: no handle is closed twice; the handle Close closes is the one the   *)
(* latest successful open returned; a handle replaced by a later successful *)
(* open while it was held stays open for ever, and each such Init adds one  *)
(* leaked handle.                                                           *)
C25_HandlesLeak ==
    [][/\ \A h \in DOMAIN handles' : handles'[h].closes <= 1
       /\ logFile' \in {0, Len(handles')}
       /\ \A h \in DOMAIN handles :
             handles'[h] # handles[h] => (CloseStep /\ h = Len(handles))
       /\ \A h \in Leaked : h \in Leaked' /\ handles'[h].closes = 0
       /\ Cardinality(Leaked') =
             Cardinality(Leaked) + (IF OpenStep /\ logFile # 0 THEN 1 ELSE 0)
      ]_vars

(* The second Init opened the file while the first handle was held: the     *)
(* first handle is open, was never closed, and is not the one held.         *)
C25_Witness ==
    /\ Len(handles) = 2
    /\ logFile = 2
    /\ lastOp.op = "Init"
    /\ lastOp.opened
    /\ Leaked = {1}
    /\ handles[1].closes = 0

-----------------------------------------------------------------------------
(* An escape run starts at byte j of s: ESC immediately followed by "[". *)
RunStart(s, j) == s[j] = ESC /\ j + 1 <= Len(s) /\ s[j + 1] = "["

(* Byte i of s lies in an escape run that is open at i: a run started at or *)
(* before i and no "m" lies between its "[" and i.                          *)
InOpenRun(s, i) ==
    \E j \in 1..i : RunStart(s, j) /\ \A k \in (j + 1)..(i - 1) : s[k] # "m"

(* Byte i of s lies in a run that an "m" ends. *)
InClosedRun(s, i) ==
    InOpenRun(s, i) /\ \E k \in i..Len(s) : s[k] = "m"

(* The bytes of s at the positions from i on that are not in D, in order. *)
RECURSIVE Pick(_, _, _)
Pick(s, D, i) ==
    IF i > Len(s) THEN <<>>
    ELSE (IF i \in D THEN <<>> ELSE <<s[i]>>) \o Pick(s, D, i + 1)

(* What the Write handed to the stream beneath the plainFileWriter. *)
C26_Output == IF stdout = <<>> THEN <<>> ELSE stdout[1].data

-----------------------------------------------------------------------------
(* The handle the logger of a level writes its file copy to; 0 when it has  *)
(* no file side.                                                            *)
FileHandleOf(level) ==
    IF loggers[level].out.kind = "multi" THEN loggers[level].out.second.w.h ELSE 0

(* C27: the handle held in logFile is the handle every logger writes its    *)
(* file copy to, and no handle is held when the loggers have no file side. *)
C27_HandleIsBound == \A level \in Levels : FileHandleOf(level) = logFile

-----------------------------------------------------------------------------
(* The step ends enabled call id: it returns, or exits the process. *)
Ends(id) ==
    /\ calls'[id].wasEnabled
    /\ calls'[id].status \in {"returned", "exited"}
    /\ (id > Len(calls) \/ calls[id].status = "running")

(* C28: once Init has been called, between a Close and the next Init no     *)
(* step adds to the file, and an enabled call that ends has put exactly    *)
(* one whole line on its console stream; unless it is a fatal one it has   *)
(* returned and the process runs.                                          *)
C28_ConsoleAfterClose ==
    [][(nInit > 0 /\ lastOp.op = "Close" /\ lastOp'.op = "Close") =>
          /\ disk' = disk
          /\ \A id \in 1..Len(calls') :
                Ends(id) =>
                    /\ Cardinality(RecsOf(stdout', id)) + Cardinality(RecsOf(stderr', id)) = 1
                    /\ \A i \in RecsOf(stdout', id) :
                          ~stdout'[i].torn /\ stdout'[i].data[Len(stdout'[i].data)] = LF
                    /\ \A i \in RecsOf(stderr', id) :
                          ~stderr'[i].torn /\ stderr'[i].data[Len(stderr'[i].data)] = LF
                    /\ ~(calls'[id].in.entry # "Api" /\ calls'[id].in.level = FatalLevel) =>
                          calls'[id].status = "returned" /\ exitCode' = -1]_vars

(* Close has closed the file the loggers are bound to, and a call made      *)
(* since has returned: its line is on stdout and the file has no record of *)
(* it, while the call before the Close left one.                            *)
C28_Witness ==
    /\ lastOp.op = "Close"
    /\ lastOp.opened
    /\ Len(calls) = 2
    /\ calls[1].wasEnabled /\ RecsOf(disk, 1) # {}
    /\ calls[2].wasEnabled /\ calls[2].status = "returned"
    /\ FileHandleOf(calls[2].level) # 0
    /\ ~handles[FileHandleOf(calls[2].level)].open
    /\ RecsOf(disk, 2) = {}
    /\ Cardinality(RecsOf(stdout, 2)) = 1

-----------------------------------------------------------------------------
(* C29: until the first Init every severity is enabled and every logger     *)
(* writes to io.Discard: each call finds its severity enabled and writes   *)
(* nothing to stdout, stderr or a file; a non-fatal call that has returned *)
(* took the lock and released it, and a fatal call that has ended has      *)
(* ended the process with exit code 1.                                     *)
C29_Uninitialized ==
    nInit = 0 =>
        /\ enabledLevels = Levels
        /\ \A level \in Levels : loggers[level].out.kind = "discard"
        /\ stdout = <<>> /\ stderr = <<>> /\ disk = <<>> /\ handles = <<>>
        /\ \A id \in CallIds :
              /\ calls[id].wasEnabled
              /\ Silent(id)
              /\ calls[id].status = "returned" =>
                    /\ ~FatalCall(id)
                    /\ calls[id].locked
                    /\ Quiet => logMutex = 0
                    /\ exitCode = -1 \/ \E other \in CallIds : FatalCall(other)
              /\ FatalCall(id) =>
                    \/ calls[id].status = "running" /\ exitCode = -1
                    \/ calls[id].status = "exited" /\ exitCode = 1 /\ calls[id].locked

(* No Init yet: an Infof has returned and a FatalKV has ended the process.  *)
C29_Witness ==
    /\ nInit = 0
    /\ Len(calls) = 2
    /\ calls[1].in.entry = "f" /\ calls[1].status = "returned" /\ calls[1].locked
    /\ FatalCall(2) /\ calls[2].status = "exited"
    /\ exitCode = 1
    /\ stdout = <<>> /\ stderr = <<>> /\ disk = <<>>

-----------------------------------------------------------------------------
(* The severity occurs in the list. *)
Occurs(list, level) == \E i \in 1..Len(list) : list[i] = level

(* C30: after Init with a non-nil Levels list a severity is enabled exactly *)
(* when it occurs in the list, however often and wherever; AllLevels()     *)
(* enables the nine; and an Init whose list has the elements of the list   *)
(* of the Init before it leaves the enabled set as it was.                  *)
C30_LevelsByValue ==
    /\ [](lastOp.op = "Init" =>
            /\ \A level \in Levels :
                  level \in enabledLevels <=> Occurs(lastOp.config.Levels.list, level)
            /\ Cardinality(enabledLevels) <= Len(lastOp.config.Levels.list)
            /\ lastOp.config.Levels.list = AllLevels =>
                  enabledLevels = Levels /\ Cardinality(enabledLevels) = 9)
    /\ [][(InitStep /\ lastOp.op = "Init"
             /\ \A level \in Levels :
                   Occurs(lastOp'.config.Levels.list, level)
                       <=> Occurs(lastOp.config.Levels.list, level))
          => enabledLevels' = enabledLevels]_vars

(* The second Init was given Error, Info, Error while LOGGER_LEVELS names    *)
(* CRIT: Info and Error are enabled, nothing else.                          *)
C30_Witness ==
    /\ nInit = 2
    /\ lastOp.op = "Init"
    /\ lastOp.config.Levels.list = <<ErrorLevel, InfoLevel, ErrorLevel>>
    /\ enabledLevels = {InfoLevel, ErrorLevel}
    /\ env.LOGGER_LEVELS = <<"CRIT">>

====
